---------------------------- MODULE Spec2Model ----------------------------
(***************************************************************************)
(* A model of cmake/scripts/generate_resources.py: the resource collector, *)
(* the identifier sanitizer, the design-scale parser and the three         *)
(* emitters (header, source, JSON index), driven by main.                  *)
(*                                                                         *)
(* Python strings are modelled as sequences of Unicode code points, so     *)
(* that <<97, 46, 112, 110, 103>> is the string "a.png".  Every string     *)
(* literal of the model carries the text it stands for in a comment.       *)
(***************************************************************************)
EXTENDS Integers, Sequences, FiniteSets

VARIABLES
    input_exists,         \* input_dir.exists()
    kind,                 \* the file system below input_dir: entry -> kind
    data,                 \* regular file -> its bytes
    unreadable,           \* regular files whose open(..., 'rb') raises
    md5,                  \* hashlib.md5(name).hexdigest()[:8], per name
    pc,                   \* position of the run
    pending,              \* entries input_dir.rglob('*') has yet to yield
    resources,            \* the ordered dict built by collect_resources
    file_path,            \* loop variable of collect_resources
    identifier,           \* local of collect_resources
    original_identifier,  \* local of collect_resources
    counter,              \* local of collect_resources
    header,               \* the file at header_path
    source,               \* the file at source_path
    index,                \* the file at index_path
    stderr,               \* lines printed to sys.stderr
    stdout,               \* lines printed to sys.stdout
    name,                 \* argument of a single call of a pure function
    ret_identifier,       \* what sanitize_identifier(name) returned
    ret_scale             \* what parse_design_scale(name) returned

vars == <<input_exists, kind, data, unreadable, md5, pc, pending, resources,
          file_path, identifier, original_identifier, counter, header,
          source, index, stderr, stdout, name, ret_identifier, ret_scale>>

(***************************************************************************)
(* Bounds of the model.                                                    *)
(***************************************************************************)
\* Longest name handed to sanitize_identifier in SanitizeSpec.
MaxNameLen == 3
\* Most fragments a file name handed to parse_design_scale is built from.
MaxFrags == 3
\* Most regular files in the input tree of a run.
MaxFiles == 3

(***************************************************************************)
(* Strings.                                                                *)
(***************************************************************************)
\* All concatenations of exactly n strings of the set frags.
RECURSIVE Words(_, _)
Words(frags, n) ==
    IF n = 0 THEN {<<>>}
    ELSE {f \o w : f \in frags, w \in Words(frags, n - 1)}

\* s.rfind(c) + 1: the last position of code point c in s, 0 if there is none.
LastIndexOf(s, c) ==
    LET hits == {i \in 1..Len(s) : s[i] = c}
    IN IF hits = {} THEN 0 ELSE CHOOSE i \in hits : \A j \in hits : j <= i

\* s[i - 1:].startswith(p), i counted from 1.
HasPrefixAt(s, i, p) ==
    /\ i >= 1
    /\ i + Len(p) - 1 <= Len(s)
    /\ \A k \in 1..Len(p) : s[i + k - 1] = p[k]

\* str.isalpha() of one character, for the code points below 256.
isalpha(c) ==
    \/ c \in 65..90
    \/ c \in 97..122
    \/ c \in {170, 181, 186}
    \/ c \in 192..214
    \/ c \in 216..246
    \/ c \in 248..255

\* str.isalnum() of one character, for the code points below 256: letters,
\* decimal digits, and the superscript digits and fractions of Latin-1.
isalnum(c) ==
    \/ isalpha(c)
    \/ c \in 48..57
    \/ c \in {178, 179, 185, 188, 189, 190}

\* A character \d matches, for the code points below 256.
IsDecimalDigit(c) == c \in 48..57

\* Case folding of re.IGNORECASE, for the ASCII letters of the pattern.
Lower(c) == IF c \in 65..90 THEN c + 32 ELSE c

\* s.lower(), as far as re.IGNORECASE is concerned.
LowerStr(s) == [i \in 1..Len(s) |-> Lower(s[i])]

\* int(digits) for a string of ASCII decimal digits.
RECURSIVE DecimalValue(_)
DecimalValue(digits) ==
    IF digits = <<>> THEN 0
    ELSE 10 * DecimalValue(SubSeq(digits, 1, Len(digits) - 1))
         + (digits[Len(digits)] - 48)

\* str(n), the decimal digits an f-string renders a non-negative int with.
RECURSIVE IntToStr(_)
IntToStr(n) ==
    IF n < 10 THEN <<48 + n>>
    ELSE IntToStr(n \div 10) \o <<48 + (n % 10)>>

(***************************************************************************)
(* parse_design_scale                                                      *)
(***************************************************************************)
\* The alternatives of the pattern's second group, in order:
\* png | jpg | jpeg | bmp.
ImageExtensions ==
    << <<112, 110, 103>>, <<106, 112, 103>>, <<106, 112, 101, 103>>,
       <<98, 109, 112>> >>

\* The end of the longest run of \d characters of s that starts at i
\* (i - 1 when s[i] is no digit): what the greedy \d+ consumes.
DigitRunEnd(s, i) ==
    LET stops == {j \in i..(Len(s) + 1) :
                     j = Len(s) + 1 \/ ~IsDecimalDigit(s[j])}
    IN (CHOOSE j \in stops : \A k \in stops : j <= k) - 1

\* Whether r'@(\d+)x\.(png|jpg|jpeg|bmp)' with re.IGNORECASE matches s
\* starting at position i.
MatchesAt(s, i) ==
    LET e == DigitRunEnd(s, i + 1)
    IN /\ i <= Len(s)
       /\ s[i] = 64                                    \* "@"
       /\ e >= i + 1                                   \* \d+
       /\ e + 2 <= Len(s)
       /\ Lower(s[e + 1]) = 120                        \* "x"
       /\ s[e + 2] = 46                                \* "\."
       /\ \E a \in 1..Len(ImageExtensions) :
              HasPrefixAt(LowerStr(s), e + 3, ImageExtensions[a])

\* The floats returned have integral values; they are modelled as integers
\* (1 for 1.0).
parse_design_scale(filename) ==
    LET starts == {i \in 1..Len(filename) : MatchesAt(filename, i)}
        \* re.search returns the leftmost match
        first == CHOOSE i \in starts : \A j \in starts : i <= j
    IN IF starts # {}
       THEN DecimalValue(SubSeq(filename, first + 1,
                                DigitRunEnd(filename, first + 1)))
       ELSE 1

(***************************************************************************)
(* sanitize_identifier                                                     *)
(***************************************************************************)
\* PurePosixPath(name).name: the last component of a normalised path.
PathName(path) == SubSeq(path, LastIndexOf(path, 47) + 1, Len(path))

\* PurePosixPath(name).stem: the last component without its final suffix.
\* A dot that leads or ends the component starts no suffix.
PathStem(path) ==
    LET base == PathName(path)
        dot == LastIndexOf(base, 46)
    IN IF 1 < dot /\ dot < Len(base)
       THEN SubSeq(base, 1, dot - 1)
       ELSE base

\* hashlib.md5 is not computed: the variable md5 is some function from names
\* to strings of 8 hexadecimal digits, the same for every call of a run, so
\* that two names may share a digest as 32 bits of a hash allow.  The
\* digests it may assign: "0cc175b9" and "92eb5ffe".
Digests ==
    { <<48, 99, 99, 49, 55, 53, 98, 57>>,
      <<57, 50, 101, 98, 53, 102, 102, 101>> }

sanitize_identifier(n) ==
    LET stem == PathStem(n)
        hash_suffix == md5[n]
        sanitized == [i \in 1..Len(stem) |->
                         IF isalnum(stem[i]) \/ stem[i] = 95
                         THEN stem[i] ELSE 95]
        prefixed == IF ~isalpha(sanitized[1])
                    THEN <<114, 101, 115, 95>> \o sanitized    \* "res_"
                    ELSE sanitized
    IN prefixed \o <<95>> \o hash_suffix


(***************************************************************************)
(* The file system seen by one run.  A path is a pathlib.Path: the         *)
(* sequence of its components, each a string.                              *)
(***************************************************************************)
\* --input-dir: Path("in")
InputDir == << <<105, 110>> >>

\* The entries that may exist below the input directory:
\*   a@2x.png   d   d/a@2x.png   d/.x   d/.x/a_2x.bmp   a\2x.png
\* (the last name holds a backslash, which POSIX file names may).
RelEntries ==
    { << <<97, 64, 50, 120, 46, 112, 110, 103>> >>,
      << <<100>> >>,
      << <<100>>, <<97, 64, 50, 120, 46, 112, 110, 103>> >>,
      << <<100>>, <<46, 120>> >>,
      << <<100>>, <<46, 120>>, <<97, 95, 50, 120, 46, 98, 109, 112>> >>,
      << <<97, 92, 50, 120, 46, 112, 110, 103>> >> }

Entries == {InputDir \o r : r \in RelEntries}

\* What an entry may be: a regular file, a directory, something else (a
\* socket, a FIFO, a dangling link), or not there at all.
Kinds == {"absent", "file", "dir", "other"}

\* What each entry of RelEntries may be: "d" is a directory or a socket,
\* "d/.x" a hidden file or a hidden directory, the others regular files.
KindsOf(p) ==
    IF Len(p) = 2 /\ p[2] = <<100>> THEN {"absent", "dir", "other"}
    ELSE IF p[Len(p)] = <<46, 120>> THEN {"absent", "file", "dir"}
    ELSE {"absent", "file"}

\* Path.parent
Parent(p) == SubSeq(p, 1, Len(p) - 1)

\* A tree: whatever exists lies in a directory that exists.
ConsistentTree(k) ==
    \A p \in Entries :
        k[p] # "absent" =>
            \/ Parent(p) = InputDir
            \/ (Parent(p) \in Entries /\ k[Parent(p)] = "dir")

\* The bytes a regular file may hold: b'' and b'\x00\x0a\xff'.
Contents == { <<>>, <<0, 10, 255>> }

\* Path.is_file()
is_file(p) == kind[p] = "file"

\* file_path.name.startswith('.')
IsHidden(p) == p[Len(p)][1] = 46

\* input_dir.glob('*') in the place of rglob: the children of dir only.
glob_children(dir) ==
    {p \in Entries : kind[p] # "absent" /\ Parent(p) = dir}

\* input_dir.rglob('*'): every entry at any depth below dir.
rglob(dir) ==
    {p \in Entries :
        /\ kind[p] # "absent"
        /\ Len(p) > Len(dir)
        /\ SubSeq(p, 1, Len(dir)) = dir}

\* file_path.relative_to(input_dir)
relative_to(p, dir) == SubSeq(p, Len(dir) + 1, Len(p))

\* PurePath.as_posix(): the components joined by "/".
RECURSIVE as_posix(_)
as_posix(p) ==
    IF Len(p) = 1 THEN p[1]
    ELSE p[1] \o <<47>> \o as_posix(Tail(p))

\* Path.stat().st_size
st_size(p) == Len(data[p])

(***************************************************************************)
(* collect_resources                                                       *)
(***************************************************************************)
\* The keys of the dict, and "identifier in resources".
Keys(res) == {res[i].identifier : i \in 1..Len(res)}

\* A collector without the while loop: no identifier counts as taken.
InResources_never(id, res) == FALSE

InResources(id, res) == id \in Keys(res)

\* resources[identifier] = value: a new key goes last, an existing key keeps
\* its place and gets the new value.
DictSet(res, id, value) ==
    IF id \in Keys(res)
    THEN [i \in 1..Len(res) |->
             IF res[i].identifier = id THEN value ELSE res[i]]
    ELSE Append(res, value)

\* The test of line 35.
Eligible(p) == is_file(p) /\ ~IsHidden(p)

\* f"{original_identifier}_{counter + 1}": the suffixes start at _2.
Suffixed_from_two(orig, n) == orig \o <<95>> \o IntToStr(n + 1)

\* f"{original_identifier}_{counter}"
Suffixed(orig, n) == orig \o <<95>> \o IntToStr(n)

\* if not input_dir.exists(): return resources -- else the walk begins.
Collect_Start ==
    /\ pc = "start"
    /\ resources' = <<>>
    /\ IF ~input_exists
       THEN /\ pc' = "collected"
            /\ pending' = {}
       ELSE /\ pc' = "walk"
            /\ pending' = rglob(InputDir)
    /\ UNCHANGED <<input_exists, kind, data, unreadable, md5, file_path,
                   identifier, original_identifier, counter, header, source,
                   index, stderr, stdout, name, ret_identifier, ret_scale>>

\* One iteration of the for loop, up to the while loop: rglob yields an
\* entry, in an order the file system decides.
Collect_Visit ==
    /\ pc = "walk"
    /\ \E p \in pending :
        /\ pending' = pending \ {p}
        /\ file_path' = p
        /\ IF Eligible(p)
           THEN /\ identifier' =
                       sanitize_identifier(as_posix(relative_to(p, InputDir)))
                /\ original_identifier' = identifier'
                /\ counter' = 1
                /\ pc' = "dedup"
           ELSE UNCHANGED <<identifier, original_identifier, counter, pc>>
    /\ UNCHANGED <<input_exists, kind, data, unreadable, md5, resources,
                   header, source, index, stderr, stdout, name,
                   ret_identifier, ret_scale>>

\* One iteration of the while loop of line 44.
Dedup_Loop ==
    /\ pc = "dedup"
    /\ InResources(identifier, resources)
    /\ identifier' = Suffixed(original_identifier, counter)
    /\ counter' = counter + 1
    /\ UNCHANGED <<input_exists, kind, data, unreadable, md5, pc, pending,
                   resources, file_path, original_identifier, header, source,
                   index, stderr, stdout, name, ret_identifier, ret_scale>>

\* The entry stored at line 49.
Entry(id, p) ==
    [identifier |-> id,
     file_path |-> p,
     normalized_path |-> as_posix(relative_to(p, InputDir)),
     design_scale |-> parse_design_scale(p[Len(p)])]

\* The while loop ends and line 49 stores the entry.
Collect_Store ==
    /\ pc = "dedup"
    /\ ~InResources(identifier, resources)
    /\ resources' = DictSet(resources, identifier, Entry(identifier, file_path))
    /\ pc' = "walk"
    /\ UNCHANGED <<input_exists, kind, data, unreadable, md5, pending,
                   file_path, identifier, original_identifier, counter,
                   header, source, index, stderr, stdout, name,
                   ret_identifier, ret_scale>>

\* The walk is over: return resources.
Collect_Return ==
    /\ pc = "walk"
    /\ pending = {}
    /\ pc' = "collected"
    /\ UNCHANGED <<input_exists, kind, data, unreadable, md5, pending,
                   resources, file_path, identifier, original_identifier,
                   counter, header, source, index, stderr, stdout, name,
                   ret_identifier, ret_scale>>


(***************************************************************************)
(* The emitters.  An output file is a record: whether it was written, and  *)
(* the parts of its text that depend on the resources.                     *)
(***************************************************************************)
NotWritten == [written |-> FALSE]

\* format(b // 16 or b % 16, 'x'): one lowercase hexadecimal digit.
HexDigit(d) == IF d < 10 THEN 48 + d ELSE 87 + d

\* f'0x{b:02x}'
HexByte(b) == <<48, 120, HexDigit(b \div 16), HexDigit(b % 16)>>

\* ', '.join over data[:-1]: the last byte is not rendered.
HexData_without_last(bytes) ==
    [i \in 1..(IF Len(bytes) = 0 THEN 0 ELSE Len(bytes) - 1) |->
        HexByte(bytes[i])]

\* The byte literals that ', '.join(...) separates, one per byte read.
HexData(bytes) == [i \in 1..Len(bytes) |-> HexByte(bytes[i])]

\* The extern declarations of lines 71-72, in the order of the dict.
generate_header(res) ==
    [written |-> TRUE,
     externs |-> [i \in 1..Len(res) |-> res[i].identifier]]

\* A source emitter that skips what it cannot read: no read ends the run.
ReadFails_never(res) == FALSE

\* with open(file_path, 'rb') raises for one of the resources.
ReadFails(res) == \E i \in 1..Len(res) : res[i].file_path \in unreadable

\* The record emitted by lines 104-113 for one resource: the byte array, and
\* the initialiser of the ResourceData.
SourceRecord(e) ==
    LET bytes == data[e.file_path]
    IN [identifier |-> e.identifier,
        data |-> HexData(bytes),
        size |-> Len(bytes),
        path |-> e.normalized_path,
        designScale |-> e.design_scale]

\* The text written at line 143: the records, then the std::array with its
\* declared size and its initialisers.
generate_source(res) ==
    [written |-> TRUE,
     records |-> [i \in 1..Len(res) |-> SourceRecord(res[i])],
     array_size |-> Len(res),
     all_resources |-> [i \in 1..Len(res) |-> res[i].identifier]]

\* One element of index_data["resources"] (the modification time is left
\* out: the model has no clock).
IndexRecord(e) ==
    [identifier |-> e.identifier,
     path |-> e.normalized_path,
     designScale |-> e.design_scale,
     size |-> st_size(e.file_path)]

\* An index built over reversed(resources.items()).
generate_index_reversed(res) ==
    [written |-> TRUE,
     resources |-> [i \in 1..Len(res) |-> IndexRecord(res[Len(res) + 1 - i])]]

generate_index(res) ==
    [written |-> TRUE,
     resources |-> [i \in 1..Len(res) |-> IndexRecord(res[i])]]

(***************************************************************************)
(* The generated C++: findResource over all_resources.                     *)
(***************************************************************************)
\* The simple escape sequences of a C++ string literal: the character after
\* the backslash -> the character the compiler stores.
SimpleEscape ==
    [c \in {34, 39, 63, 92, 97, 98, 102, 110, 114, 116, 118} |->
        CASE c = 97 -> 7      \* \a
          [] c = 98 -> 8      \* \b
          [] c = 102 -> 12    \* \f
          [] c = 110 -> 10    \* \n
          [] c = 114 -> 13    \* \r
          [] c = 116 -> 9     \* \t
          [] c = 118 -> 11    \* \v
          [] OTHER -> c]      \* \" \' \? \\

\* How many of the characters of t from position i on are octal digits, up
\* to the three an octal escape takes.
OctalRun(t, i) ==
    IF i > Len(t) \/ t[i] \notin 48..55 THEN 0
    ELSE IF i + 1 > Len(t) \/ t[i + 1] \notin 48..55 THEN 1
    ELSE IF i + 2 > Len(t) \/ t[i + 2] \notin 48..55 THEN 2
    ELSE 3

RECURSIVE OctalValue(_)
OctalValue(digits) ==
    IF digits = <<>> THEN 0
    ELSE 8 * OctalValue(SubSeq(digits, 1, Len(digits) - 1))
         + (digits[Len(digits)] - 48)

\* The characters a C++ compiler stores for the string literal "text":
\* simple and octal escape sequences are replaced.  (Hexadecimal and
\* universal-character escapes do not occur in the names of RelEntries.)
RECURSIVE CppStringLiteral(_)
CppStringLiteral(text) ==
    IF text = <<>> THEN <<>>
    ELSE IF text[1] # 92 \/ Len(text) = 1
    THEN <<text[1]>> \o CppStringLiteral(Tail(text))
    ELSE IF OctalRun(text, 2) > 0
    THEN <<OctalValue(SubSeq(text, 2, 1 + OctalRun(text, 2))) % 256>>
         \o CppStringLiteral(SubSeq(text, 2 + OctalRun(text, 2), Len(text)))
    ELSE IF text[2] \in DOMAIN SimpleEscape
    THEN <<SimpleEscape[text[2]]>>
         \o CppStringLiteral(SubSeq(text, 3, Len(text)))
    ELSE <<text[2]>> \o CppStringLiteral(SubSeq(text, 3, Len(text)))

\* The elements of all_resources: each initialiser names a ResourceData
\* record, which is copied into the array.
AllResources(src) ==
    [i \in 1..Len(src.all_resources) |->
        CHOOSE r \in {src.records[j] : j \in 1..Len(src.records)} :
            r.identifier = src.all_resources[i]]

\* findResource(path): std::find_if over all_resources; the position of the
\* element returned, 0 for nullptr.
findResource(src, path) ==
    LET all == AllResources(src)
        hits == {i \in 1..Len(all) : CppStringLiteral(all[i].path) = path}
    IN IF hits = {} THEN 0
       ELSE CHOOSE i \in hits : \A j \in hits : i <= j

\* getResourceCount(): all_resources.size()
getResourceCount(src) == src.array_size

(***************************************************************************)
(* main                                                                    *)
(***************************************************************************)
\* "if resources:" in the place of "if not resources:".
NoResources_inverted(res) == Len(res) > 0

\* "not resources"
NoResources(res) == Len(res) = 0

\* Lines 180-181: the warning for an empty mapping.
Main_Warn ==
    /\ pc = "collected"
    /\ stderr' = IF NoResources(resources)
                 THEN Append(stderr, "Warning: No resources found")
                 ELSE stderr
    /\ pc' = "header"
    /\ UNCHANGED <<input_exists, kind, data, unreadable, md5, pending,
                   resources, file_path, identifier, original_identifier,
                   counter, header, source, index, stdout, name,
                   ret_identifier, ret_scale>>

\* Line 187.
Main_GenerateHeader ==
    /\ pc = "header"
    /\ header' = generate_header(resources)
    /\ pc' = "source"
    /\ UNCHANGED <<input_exists, kind, data, unreadable, md5, pending,
                   resources, file_path, identifier, original_identifier,
                   counter, source, index, stderr, stdout, name,
                   ret_identifier, ret_scale>>

\* Line 188: the text is built in memory from every file, then written; a
\* read that raises ends the run before the write.
Main_GenerateSource ==
    /\ pc = "source"
    /\ IF ReadFails(resources)
       THEN /\ pc' = "failed"
            /\ UNCHANGED source
       ELSE /\ source' = generate_source(resources)
            /\ pc' = "index"
    /\ UNCHANGED <<input_exists, kind, data, unreadable, md5, pending,
                   resources, file_path, identifier, original_identifier,
                   counter, header, index, stderr, stdout, name,
                   ret_identifier, ret_scale>>

\* Line 189.
Main_GenerateIndex ==
    /\ pc = "index"
    /\ index' = generate_index(resources)
    /\ pc' = "summary"
    /\ UNCHANGED <<input_exists, kind, data, unreadable, md5, pending,
                   resources, file_path, identifier, original_identifier,
                   counter, header, source, stderr, stdout, name,
                   ret_identifier, ret_scale>>

\* Line 191: print(f"Generated {len(resources)} embedded resources")
Main_Summary ==
    /\ pc = "summary"
    /\ stdout' = Append(stdout, [generated |-> Len(resources)])
    /\ pc' = "done"
    /\ UNCHANGED <<input_exists, kind, data, unreadable, md5, pending,
                   resources, file_path, identifier, original_identifier,
                   counter, header, source, index, stderr, name,
                   ret_identifier, ret_scale>>

(***************************************************************************)
(* A run of main over a file system.                                       *)
(***************************************************************************)
RegularFiles(k) == {p \in Entries : k[p] = "file"}

\* The locals of main and of collect_resources before they are assigned, and
\* the output directory before anything is written to it.
NothingYet ==
    /\ pending = {}
    /\ resources = <<>>
    /\ file_path = <<>>
    /\ identifier = <<>>
    /\ original_identifier = <<>>
    /\ counter = 0
    /\ header = NotWritten
    /\ source = NotWritten
    /\ index = NotWritten
    /\ stderr = <<>>
    /\ stdout = <<>>

\* No call of a pure function is traced in a run of main.
NoCall ==
    /\ name = <<>>
    /\ ret_identifier = <<>>
    /\ ret_scale = 1

\* The files the run opens and hashes the names of: the others' bytes,
\* permissions and digests are seen by nobody.
Visible(k) == {p \in RegularFiles(k) : ~IsHidden(p)}

\* The input directory is missing, or holds a tree of at most MaxFiles
\* regular files.  The bytes of a file that cannot be opened are seen by
\* nobody either: they are fixed to b''.
Init ==
    /\ input_exists \in BOOLEAN
    /\ kind \in [Entries -> Kinds]
    /\ \A p \in Entries : kind[p] \in KindsOf(p)
    /\ ConsistentTree(kind)
    /\ ~input_exists => \A p \in Entries : kind[p] = "absent"
    /\ Cardinality(RegularFiles(kind)) <= MaxFiles
    /\ unreadable \in SUBSET Visible(kind)
    /\ data \in [RegularFiles(kind) -> Contents]
    /\ \A p \in unreadable \cup (RegularFiles(kind) \ Visible(kind)) :
           data[p] = <<>>
    /\ md5 \in [{as_posix(relative_to(p, InputDir)) : p \in Visible(kind)}
                 -> Digests]
    /\ pc = "start"
    /\ NothingYet
    /\ NoCall

Next ==
    \/ Collect_Start
    \/ Collect_Visit
    \/ Dedup_Loop
    \/ Collect_Store
    \/ Collect_Return
    \/ Main_Warn
    \/ Main_GenerateHeader
    \/ Main_GenerateSource
    \/ Main_GenerateIndex
    \/ Main_Summary

Spec == Init /\ [][Next]_vars


(***************************************************************************)
(* Single calls of the two pure functions.                                 *)
(***************************************************************************)
\* No run of main: nothing is collected or written.
NoRun ==
    /\ input_exists = FALSE
    /\ kind = [p \in Entries |-> "absent"]
    /\ data = <<>>
    /\ unreadable = {}
    /\ NothingYet

\* The characters names are drawn from: a Z 1 _ . - / and the Latin-1
\* letter e-acute (233) and digit superscript-two (178).
NameAlphabet == {97, 90, 49, 95, 46, 45, 47, 233, 178}

\* Every string of length n over NameAlphabet.
NamesOfLength(n) == Words({<<c>> : c \in NameAlphabet}, n)

\* A relative path as as_posix() returns it: no empty component (no leading,
\* trailing or doubled "/"), and no component "." or "..".
RECURSIVE IsRelativePath(_)
IsRelativePath(s) ==
    LET slash == LastIndexOf(s, 47)
        last == PathName(s)
    IN /\ last # <<>>
       /\ last # <<46>>
       /\ last # <<46, 46>>
       /\ slash # 0 => IsRelativePath(SubSeq(s, 1, slash - 1))

SanitizeNames ==
    {s \in UNION {NamesOfLength(n) : n \in 1..MaxNameLen} : IsRelativePath(s)}

SanitizeInit ==
    /\ name \in SanitizeNames
    /\ md5 \in [{name} -> Digests]
    /\ pc = "call"
    /\ ret_identifier = <<>>
    /\ ret_scale = 1
    /\ NoRun

Sanitize_Call ==
    /\ pc = "call"
    /\ ret_identifier' = sanitize_identifier(name)
    /\ pc' = "returned"
    /\ UNCHANGED <<input_exists, kind, data, unreadable, md5, pending,
                   resources, file_path, identifier, original_identifier,
                   counter, header, source, index, stderr, stdout, name,
                   ret_scale>>

SanitizeNext == Sanitize_Call

SanitizeSpec == SanitizeInit /\ [][SanitizeNext]_vars

\* The pieces file names are built from:
\*   a  @  @2x  @10X  @x  .png  .JPG  .jpeg  .bmp  .txt  .pn
ScaleFragments ==
    { <<97>>, <<64>>, <<64, 50, 120>>, <<64, 49, 48, 88>>, <<64, 120>>,
      <<46, 112, 110, 103>>, <<46, 74, 80, 71>>, <<46, 106, 112, 101, 103>>,
      <<46, 98, 109, 112>>, <<46, 116, 120, 116>>, <<46, 112, 110>> }

ScaleNames == UNION {Words(ScaleFragments, n) : n \in 1..MaxFrags}

ScaleInit ==
    /\ name \in ScaleNames
    /\ md5 = <<>>
    /\ pc = "call"
    /\ ret_identifier = <<>>
    /\ ret_scale = 1
    /\ NoRun

Scale_Call ==
    /\ pc = "call"
    /\ ret_scale' = parse_design_scale(name)
    /\ pc' = "returned"
    /\ UNCHANGED <<input_exists, kind, data, unreadable, md5, pending,
                   resources, file_path, identifier, original_identifier,
                   counter, header, source, index, stderr, stdout, name,
                   ret_identifier>>

ScaleNext == Scale_Call

ScaleSpec == ScaleInit /\ [][ScaleNext]_vars


(***************************************************************************)
(* Vocabulary of the properties.                                           *)
(***************************************************************************)
\* collect_resources has returned.
Collected ==
    pc \in {"collected", "header", "source", "index", "summary", "done",
            "failed"}

\* The files the collector is to embed: regular, not hidden, at any depth.
EligibleFiles == {p \in Entries : kind[p] = "file" /\ p[Len(p)][1] # 46}

\* The identifiers of the mapping, in its order.
Identifiers == [i \in 1..Len(resources) |-> resources[i].identifier]

\* The identifier the sanitizer gives the file of an entry, before any
\* suffix.
BaseIdentifier(e) == sanitize_identifier(e.normalized_path)

\* B_n, as the claims write it.
WithSuffix(b, n) == b \o <<95>> \o IntToStr(n)

\* One of the collected files cannot be read.
SomeCollectedUnreadable ==
    \E i \in 1..Len(resources) : resources[i].file_path \in unreadable

\* [A-Za-z] and [A-Za-z0-9_]
IsAsciiLetter(c) == c \in 65..90 \/ c \in 97..122

IsAsciiWord(c) == IsAsciiLetter(c) \/ c \in 48..57 \/ c = 95

\* [0-9a-f]
IsHexDigit(c) == c \in 48..57 \/ c \in 97..102

(***************************************************************************)
(* C1: once collect_resources has returned, every eligible file has an     *)
(* entry of its own and the identifiers of the mapping are pairwise        *)
(* distinct; two files with the same base identifier both keep an entry.   *)
(***************************************************************************)
C1_EveryFileOwnEntry ==
    /\ \A i, j \in 1..Len(resources) :
           i # j => /\ resources[i].identifier # resources[j].identifier
                    /\ resources[i].file_path # resources[j].file_path
    /\ Collected =>
           \A p \in EligibleFiles :
               \E i \in 1..Len(resources) : resources[i].file_path = p

\* Two files with the same base identifier were collected.
C1_Witness ==
    /\ pc = "collected"
    /\ \E i, j \in 1..Len(resources) :
           /\ i # j
           /\ BaseIdentifier(resources[i]) = BaseIdentifier(resources[j])

(***************************************************************************)
(* C6: the mapping holds exactly the eligible files: every entry is a      *)
(* regular, non-hidden file below the input root, and once the walk is     *)
(* over every such file, at any depth, has exactly one entry.              *)
(***************************************************************************)
C6_ExactlyEligibleFiles ==
    /\ \A i \in 1..Len(resources) :
           LET p == resources[i].file_path
           IN /\ kind[p] = "file"
              /\ p[Len(p)][1] # 46
              /\ Len(p) > Len(InputDir)
              /\ SubSeq(p, 1, Len(InputDir)) = InputDir
    /\ Collected =>
           \A p \in EligibleFiles :
               Cardinality({i \in 1..Len(resources) :
                               resources[i].file_path = p}) = 1

\* A tree with a hidden file and a file in a subdirectory has been walked.
C6_Witness ==
    /\ pc = "collected"
    /\ \E p \in Entries : kind[p] = "file" /\ p[Len(p)][1] = 46
    /\ \E i \in 1..Len(resources) : Len(resources[i].file_path) >= 3

\* The input directory is missing or holds nothing.
EmptyInput == ~input_exists \/ \A p \in Entries : kind[p] = "absent"

(***************************************************************************)
(* C5: with the input directory missing or empty, the collector returns    *)
(* an empty mapping, main warns on stderr, the run never fails, and at its *)
(* end all three files are written with no resource in them.               *)
(***************************************************************************)
C5_EmptyInput ==
    EmptyInput =>
        /\ pc # "failed"
        /\ pc # "done" => ENABLED Next
        /\ Collected => resources = <<>>
        /\ pc \in {"header", "source", "index", "summary", "done"} =>
               stderr = <<"Warning: No resources found">>
        /\ pc = "done" =>
               /\ header.written /\ header.externs = <<>>
               /\ source.written /\ source.records = <<>>
               /\ source.array_size = 0 /\ source.all_resources = <<>>
               /\ index.written /\ index.resources = <<>>
               /\ stdout = <<[generated |-> 0]>>

\* A run over a missing input directory has ended.
C5_Witness == ~input_exists /\ pc = "done"


(***************************************************************************)
(* C4: the header's extern declarations, the source file's records, the    *)
(* initialisers of all_resources and the JSON index's list name the same   *)
(* identifiers in the same order, the order in which the collector         *)
(* inserted them (every insertion goes last); the declared array size, the *)
(* numbers of records, declarations and index entries and the count of the *)
(* summary are equal.                                                      *)
(***************************************************************************)
C4_ArtifactsAgree ==
    /\ [](header.written => header.externs = Identifiers)
    /\ [](source.written =>
              /\ [i \in 1..Len(source.records) |->
                     source.records[i].identifier] = Identifiers
              /\ source.all_resources = Identifiers
              /\ source.array_size = Len(header.externs)
              /\ source.array_size = Len(source.records))
    /\ [](index.written =>
              /\ [i \in 1..Len(index.resources) |->
                     index.resources[i].identifier] = Identifiers
              /\ Len(index.resources) = Len(source.records)
              /\ Len(index.resources) = source.array_size)
    /\ [](pc = "done" =>
              /\ header.written /\ source.written /\ index.written
              /\ stdout = <<[generated |-> getResourceCount(source)]>>)
    /\ [][\/ resources' = resources
          \/ /\ Len(resources') = Len(resources) + 1
             /\ SubSeq(resources', 1, Len(resources)) = resources]_vars

\* A run that collected three resources has ended.
C4_Witness == pc = "done" /\ Len(resources) >= 3

(***************************************************************************)
(* C8: the size field of every record of the source file is the number of  *)
(* bytes of the file at its source path and the number of byte literals of *)
(* its data array; the index records the same size under the same          *)
(* identifier.                                                             *)
(***************************************************************************)
C8_SizesAgree ==
    /\ source.written =>
           /\ Len(source.records) = Len(resources)
           /\ \A i \in 1..Len(source.records) :
                  /\ source.records[i].size = Len(data[resources[i].file_path])
                  /\ source.records[i].size = Len(source.records[i].data)
    /\ index.written =>
           \A i \in 1..Len(index.resources) :
               \A j \in 1..Len(source.records) :
                   index.resources[i].identifier
                       = source.records[j].identifier
                   => index.resources[i].size = source.records[j].size

\* A run that embedded an empty file and a file of three bytes has ended.
C8_Witness ==
    /\ pc = "done"
    /\ \E i, j \in 1..Len(source.records) :
           /\ source.records[i].size = 0
           /\ source.records[j].size = 3
           /\ index.resources[j].size = 3

(***************************************************************************)
(* C2, as claimed: when a read fails during source emission, the source    *)
(* file and the index are not written, no summary is printed, and the run  *)
(* does not leave some of the three output files written and others not.   *)
(***************************************************************************)
C2_NoPartialOutput ==
    pc = "failed" =>
        /\ ~source.written
        /\ ~index.written
        /\ stdout = <<>>
        /\ header.written = source.written
        /\ source.written = index.written

(***************************************************************************)
(* C2, amended: when one of the collected files cannot be read, the run    *)
(* fails in generate_source: it never gets to the index or the summary,    *)
(* the source file is never written (so never with a subset of the         *)
(* resources), the index is not written and no summary is printed; the     *)
(* header, written before, stays, complete, the only output file.          *)
(***************************************************************************)
C2_FailsAfterHeaderOnly ==
    /\ SomeCollectedUnreadable =>
           /\ pc \notin {"index", "summary", "done"}
           /\ ~source.written
           /\ ~index.written
           /\ stdout = <<>>
    /\ pc = "failed" =>
           /\ SomeCollectedUnreadable
           /\ header.written
           /\ header.externs = Identifiers
    /\ source.written => Len(source.records) = Len(resources)

\* A run over a readable and an unreadable file has failed.
C2_Witness ==
    /\ pc = "failed"
    /\ \E i, j \in 1..Len(resources) :
           /\ resources[i].file_path \in unreadable
           /\ resources[j].file_path \notin unreadable

(***************************************************************************)
(* C9: findResource returns the first record of all_resources whose stored *)
(* path is the requested one, nullptr if there is none; the stored paths   *)
(* are distinct, and looking up the relative path of a collected resource  *)
(* returns that resource's record.                                         *)
(***************************************************************************)
C9_LookupFindsEachResource ==
    source.written =>
        /\ \A i \in 1..Len(resources) :
               findResource(source, resources[i].normalized_path) = i
        \* "nonexistent"
        /\ findResource(source, <<110, 111, 110, 101, 120, 105, 115, 116,
                                  101, 110, 116>>) = 0


\* What the step that stores an entry (line 49) does, b being the base
\* identifier of the file stored.
C10_StoredMinimal ==
    LET b == original_identifier
        earlier == \E i \in 1..Len(resources) :
                       BaseIdentifier(resources[i]) = b
    IN /\ resources' = Append(resources, resources'[Len(resources')])
       /\ resources'[Len(resources')].file_path = file_path
       /\ resources'[Len(resources')].identifier = identifier
       /\ BaseIdentifier(resources'[Len(resources')]) = b
       /\ ~earlier => identifier = b
       /\ earlier =>
              \E n \in 1..Len(resources) :
                  /\ identifier = WithSuffix(b, n)
                  /\ b \in Keys(resources)
                  /\ \A m \in 1..(n - 1) : WithSuffix(b, m) \in Keys(resources)
                  /\ identifier \notin Keys(resources)

(***************************************************************************)
(* C10: collision resolution is sequential and minimal.  A file whose base *)
(* identifier B no earlier file had is stored under B; a later file with   *)
(* base identifier B is stored under B_n for the least n >= 1 that is no   *)
(* key yet, B, B_1, ..., B_(n-1) being keys; an insertion changes or       *)
(* removes no earlier entry; and the while loop terminates: its counter    *)
(* grows by one in each iteration and never passes the number of keys by   *)
(* more than one, so the loop is left after at most that many iterations.  *)
(***************************************************************************)
C10_SequentialMinimalSuffix ==
    /\ [][IF pc = "dedup" /\ pc' = "walk"
          THEN C10_StoredMinimal
          ELSE resources' = resources]_vars
    /\ [][pc = "dedup" /\ pc' = "dedup" => counter' = counter + 1]_vars
    /\ [](pc = "dedup" => /\ counter >= 1
                          /\ counter <= Len(resources) + 1)

\* Three files with the same base identifier were collected: the third one
\* went through B and B_1 and was stored under B_2.
C10_Witness ==
    /\ pc = "collected"
    /\ \E i \in 1..Len(resources) :
           /\ resources[i].identifier
                  = WithSuffix(BaseIdentifier(resources[i]), 2)
           /\ counter = 3

(***************************************************************************)
(* C3, as claimed: for every file name, sanitize_identifier returns a      *)
(* string of the grammar [A-Za-z_][A-Za-z0-9_]* that starts with a letter: *)
(* the stem with every character outside [A-Za-z0-9_] replaced by "_",     *)
(* prefixed with "res_" exactly when that does not start with a letter,    *)
(* followed by "_" and 8 hexadecimal digits.                               *)
(***************************************************************************)
C3_ValidSymbol ==
    pc = "returned" =>
        LET r == ret_identifier
            stem == PathStem(name)
            clean == [i \in 1..Len(stem) |->
                         IF IsAsciiWord(stem[i]) THEN stem[i] ELSE 95]
        IN /\ Len(r) >= 10
           /\ IsAsciiLetter(r[1])
           /\ \A i \in 1..Len(r) : IsAsciiWord(r[i])
           /\ r[Len(r) - 8] = 95
           /\ \A i \in (Len(r) - 7)..Len(r) : IsHexDigit(r[i])
           /\ SubSeq(r, 1, Len(r) - 9)
                  = IF IsAsciiLetter(clean[1])
                    THEN clean
                    ELSE <<114, 101, 115, 95>> \o clean

\* The name has a marker "@<digits>x.<ext>" that starts at i and ends the
\* name.
TrailingMarkerAt(s, i) ==
    /\ s[i] = 64
    /\ \E e \in (i + 1)..Len(s) :
           /\ \A k \in (i + 1)..e : s[k] \in 48..57
           /\ e + 2 <= Len(s)
           /\ Lower(s[e + 1]) = 120
           /\ s[e + 2] = 46
           /\ \E a \in 1..Len(ImageExtensions) :
                  LowerStr(SubSeq(s, e + 3, Len(s))) = ImageExtensions[a]

\* The digits that follow the "@" at position i.
MarkerDigits(s, i) ==
    LET ends == {e \in (i + 1)..Len(s) : \A k \in (i + 1)..e : s[k] \in 48..57}
    IN SubSeq(s, i + 1, CHOOSE e \in ends : \A f \in ends : f <= e)

(***************************************************************************)
(* C7, as claimed: parse_design_scale returns N exactly when the file name *)
(* ends in "@<digits>x." and png, jpg, jpeg or bmp in any letter case, N   *)
(* being the digits of the first such marker; for every other name it      *)
(* returns 1.                                                              *)
(***************************************************************************)
C7_TrailingMarkerOnly ==
    pc = "returned" =>
        LET at == {i \in 1..Len(name) : TrailingMarkerAt(name, i)}
        IN IF at # {}
           THEN \E i \in at : ret_scale = DecimalValue(MarkerDigits(name, i))
           ELSE ret_scale = 1

=============================================================================
